---------------------------- MODULE Spec2Model ----------------------------
(***************************************************************************)
(* A model of the Trakt client of src/trakt.js: the authentication state   *)
(* record, the OAuth operations that read and write it (get_url,           *)
(* exchange_code, refresh_token, import_token, export_token, revoke_token, *)
(* poll_access), the generated endpoint calls (_call) and the transport    *)
(* (axios) as an external collaborator that answers each request in flight *)
(* with a success or an error of its own choosing.                         *)
(*                                                                         *)
(* Execution is single-threaded and cooperative: every action below is one *)
(* run-to-completion piece of JavaScript (a synchronous call up to its     *)
(* first await, a promise callback, or a timer callback).                  *)
(***************************************************************************)
EXTENDS Integers, Sequences, FiniteSets, TLC

VARIABLES
    _settings,        \* this._settings (the fields the operations read)
    _authentication,  \* this._authentication
    now,              \* Date.now(), in milliseconds
    inflight,         \* requests handed to this._api and not yet answered
    session,          \* the poll_access session: its closure and its promise
    ev,               \* the last step taken and what its caller observed
    calls             \* number of calls the client's user has made

vars ==
    <<_settings, _authentication, now, inflight, session, ev, calls>>

---------------------------------------------------------------------------
(* Bounds of the model.                                                    *)

\* Wall-clock seconds the clock may advance to.
MaxClock == 2
\* Calls the client's user makes in one behaviour.
MaxCalls == 2
\* Requests in flight at the same time.
MaxInflight == 2

---------------------------------------------------------------------------
(* JavaScript values.  A value is a tagged record, so that a missing       *)
(* property (undefined), a string, a number and a boolean can be told      *)
(* apart and compared the way the code compares them.                      *)

Undefined == [t |-> "undefined"]
Str(s) == [t |-> "string", v |-> s]
Num(n) == [t |-> "number", v |-> n]
Bool(b) == [t |-> "boolean", v |-> b]

\* ToBoolean(v): what `if (v)`, `!v` and `v && ...` test.
Truthy(v) ==
    CASE v.t = "string" -> v.v # ""
      [] v.t = "number" -> v.v # 0
      [] v.t = "boolean" -> v.v
      [] v.t = "undefined" -> FALSE
      [] v.t = "null" -> FALSE
      [] OTHER -> TRUE

\* obj[key] of a JavaScript object: undefined when the object has no such
\* property.
Get(obj, key) == IF key \in DOMAIN obj THEN obj[key] ELSE Undefined

\* a < b for a value a and a number b: a comparison with undefined is false.
LessThan(a, b) == a.t = "number" /\ a.v < b

\* Error(message)
Error(message) == [t |-> "Error", message |-> message]

---------------------------------------------------------------------------
(* The transport.  this._api(req) resolves with {data, headers, status} or *)
(* rejects with an error whose `response`, when the server answered, holds *)
(* status, headers and data; a network failure has no response.            *)

\* Milliseconds in a second, as in `* 1000`.
MsPerSecond == 1000

\* The payloads of a successful answer of /oauth/token or
\* /oauth/device/token: two answers that differ in every field.
TokenPayloads ==
    {[access_token |-> Str("A"), refresh_token |-> Str("R"),
      created_at |-> 1, expires_in |-> 1],
     [access_token |-> Str("B"), refresh_token |-> Str("S"),
      created_at |-> 2, expires_in |-> 3]}

ErrorStatuses == {400, 401}

\* What axios puts in error.response: the HTTP status is its `status`.
ErrorResponse(status) ==
    [status |-> Num(status),
     headers |-> [www_authenticate |-> "Bearer realm"]]

\* The errors this._api rejects with.
TransportErrors ==
    {[t |-> "AxiosError", response |-> ErrorResponse(s)] : s \in ErrorStatuses}
        \cup {[t |-> "AxiosError", response |-> Undefined]}

\* error.response?.statusCode
statusCode(error) ==
    IF Get(error, "response") = Undefined
        THEN Undefined
        ELSE Get(error.response, "statusCode")

---------------------------------------------------------------------------
(* The authentication state.                                               *)

\* this._authentication = {}
EmptyAuthentication ==
    [access_token |-> Undefined, refresh_token |-> Undefined,
     expires |-> Undefined, state |-> Undefined]

\* randomBytes(6).toString('hex')
CsrfStates == {Str("c0ffee"), Str("decade")}

\* The object export_token() builds from an authentication state.
export_token_of(auth) ==
    [access_token |-> auth.access_token,
     expires |-> auth.expires,
     refresh_token |-> auth.refresh_token]

\* The poll_access session before poll_access is called.
NoSession == [started |-> FALSE]

\* No step is being observed.
NoEvent == [op |-> "none", step |-> "none", sent |-> FALSE]

\* The caller has taken note of the last step; the next one may start.
Idle == ev = NoEvent

\* One more call by the client's user.
UserCall == Idle /\ calls < MaxCalls /\ calls' = calls + 1

\* A step the user does not take: an answer of the transport, the timer,
\* the clock.
Reaction == Idle /\ UNCHANGED calls

Init ==
    /\ _settings \in [client_secret : {Undefined, Str("secret")},
                       pagination : {Undefined, Bool(TRUE)}]
    /\ _authentication = EmptyAuthentication
    /\ now = 0
    /\ inflight = {}
    /\ session = NoSession
    /\ ev = NoEvent
    /\ calls = 0

---------------------------------------------------------------------------
(* Requests.  Handing a request to this._api puts it in flight; the        *)
(* transport answers it in a later step.                                   *)

CanSend == Cardinality(inflight) < MaxInflight

\* The least number that tells req apart from the requests of its shape
\* that are in flight.
FreeNumber(req) ==
    CHOOSE k \in 0..MaxInflight :
        /\ [req EXCEPT !.n = k] \notin inflight
        /\ \A j \in 0..(k - 1) : [req EXCEPT !.n = j] \in inflight

\* this._api(req): req joins the requests in flight.
Sent(req) == inflight \cup {[req EXCEPT !.n = FreeNumber(req)]}

\* A request: its URL, the operation that awaits its answer, and what that
\* operation's continuation reads of the call (grant: the grant type; arg:
\* the state exchange_code verified, or params.pagination of a call;
\* method: the descriptor of a call).
Request(url, op, grant, arg, method) ==
    [n |-> 0, url |-> url, op |-> op, grant |-> grant, arg |-> arg,
     method |-> method]

---------------------------------------------------------------------------
(* get_url, exchange_code, refresh_token, import_token, export_token and   *)
(* _exchange.                                                              *)

\* A faulty variant of the assignment: it starts from an empty state.
get_url_store_Fresh(auth, s) == [EmptyAuthentication EXCEPT !.state = s]

\* this._authentication.state = randomBytes(6).toString('hex')
get_url_store(auth, s) == [auth EXCEPT !.state = s]

\* get_url(): stores a fresh random state and returns the authorization URL.
get_url ==
    /\ UserCall
    /\ \E s \in CsrfStates :
        /\ _authentication' = get_url_store(_authentication, s)
        /\ ev' = [op |-> "get_url", step |-> "call", state |-> s,
                  prior |-> _authentication, sent |-> FALSE]
        /\ UNCHANGED <<_settings, now, inflight, session>>

\* The states a caller may hand to exchange_code: none, or one that get_url
\* can issue (the stored one, or another).
SuppliedStates == {Undefined} \cup CsrfStates

\* A faulty variant of the check: it is skipped when no state is stored.
InvalidCSRF_StoredOnly(state, auth) ==
    Truthy(state) /\ Truthy(auth.state) /\ state # auth.state

\* if (state && state != this._authentication.state) throw ...
InvalidCSRF(state, auth) == Truthy(state) /\ state # auth.state

\* A faulty variant of the then-callback: it also consumes the stored state.
_exchange_then_Consume(auth, data) ==
    [auth EXCEPT
        !.refresh_token = data.refresh_token,
        !.access_token = data.access_token,
        !.expires = Num((data.created_at + data.expires_in) * MsPerSecond),
        !.state = Undefined]

\* A faulty variant of the then-callback: only created_at is scaled.
_exchange_then_Precedence(auth, data) ==
    [auth EXCEPT
        !.refresh_token = data.refresh_token,
        !.access_token = data.access_token,
        !.expires = Num((data.created_at * MsPerSecond) + data.expires_in)]

\* The then-callback of _exchange: the three assignments.
_exchange_then(auth, data) ==
    [auth EXCEPT
        !.refresh_token = data.refresh_token,
        !.access_token = data.access_token,
        !.expires = Num((data.created_at + data.expires_in) * MsPerSecond)]

\* The catch-callback of _exchange: the error it throws on.
_exchange_catch(error) ==
    IF statusCode(error) = Num(401)
        THEN Error(error.response.headers.www_authenticate)
        ELSE error

\* _exchange(str): POST /oauth/token, for the operation op.
_exchange(op, grant, arg) ==
    /\ CanSend
    /\ inflight' = Sent(Request("/oauth/token", op, grant, arg, ""))

\* exchange_code(code, state)
exchange_code ==
    /\ UserCall
    /\ \E state \in SuppliedStates :
        IF InvalidCSRF(state, _authentication)
            THEN /\ ev' = [op |-> "exchange_code", step |-> "call",
                           state |-> state,
                           outcome |-> "thrown",
                           error |-> Error("Invalid CSRF (State)"),
                           prior |-> _authentication, sent |-> FALSE]
                 /\ UNCHANGED <<_settings, _authentication, now, inflight,
                                session>>
            ELSE /\ _exchange("exchange_code", "authorization_code", state)
                 /\ ev' = [op |-> "exchange_code", step |-> "call",
                           state |-> state,
                           outcome |-> "pending",
                           prior |-> _authentication, sent |-> TRUE]
                 /\ UNCHANGED <<_settings, _authentication, now, session>>

\* refresh_token()
refresh_token ==
    /\ UserCall
    /\ _exchange("refresh_token", "refresh_token", Undefined)
    /\ ev' = [op |-> "refresh_token", step |-> "call",
              outcome |-> "pending",
              refresh_token |-> _authentication.refresh_token,
              prior |-> _authentication, sent |-> TRUE]
    /\ UNCHANGED <<_settings, _authentication, now, session>>

\* export_token()
export_token ==
    /\ UserCall
    /\ ev' = [op |-> "export_token", step |-> "call",
              outcome |-> "returned",
              value |-> export_token_of(_authentication),
              prior |-> _authentication, sent |-> FALSE]
    /\ UNCHANGED <<_settings, _authentication, now, inflight, session>>

\* The token records a caller may hand to import_token: one with an expiry
\* and one with neither an access token nor an expiry.
ImportTokens ==
    {[access_token |-> Str("I"), expires |-> Num(1000),
      refresh_token |-> Str("J")],
     [access_token |-> Undefined, expires |-> Undefined,
      refresh_token |-> Str("J")]}

\* A faulty variant of the assignments: the expiry is left as it was.
import_token_install_NoExpiry(auth, token) ==
    [auth EXCEPT
        !.access_token = token.access_token,
        !.refresh_token = token.refresh_token]

\* The three assignments of import_token.
import_token_install(auth, token) ==
    [auth EXCEPT
        !.access_token = token.access_token,
        !.expires = token.expires,
        !.refresh_token = token.refresh_token]

\* A faulty variant of the comparison: an expiry equal to now counts as past.
import_token_expired_OrEqual(token, time) ==
    token.expires.t = "number" /\ token.expires.v <= time

\* if (token.expires < Date.now())
import_token_expired(token, time) == LessThan(token.expires, time)

\* import_token(token), up to its await (or to its return when it does not
\* refresh).
import_token ==
    /\ UserCall
    /\ \E token \in ImportTokens :
        /\ _authentication' = import_token_install(_authentication, token)
        /\ IF import_token_expired(token, now)
              THEN /\ _exchange("import_token", "refresh_token", Undefined)
                   /\ ev' = [op |-> "import_token", step |-> "call",
                             token |-> token,
                             outcome |-> "pending",
                             refresh_token |-> _authentication'.refresh_token,
                             sent |-> TRUE]
              ELSE /\ ev' = [op |-> "import_token", step |-> "call",
                             token |-> token,
                             outcome |-> "resolved",
                             value |-> export_token_of(_authentication'),
                             sent |-> FALSE]
                   /\ UNCHANGED inflight
        /\ UNCHANGED <<_settings, now, session>>

\* The transport answers a POST /oauth/token: the callbacks of _exchange
\* run and then the caller's continuation (import_token's return).
TokenResponse ==
    /\ Reaction
    /\ \E req \in inflight :
        /\ req.url = "/oauth/token"
        /\ inflight' = inflight \ {req}
        /\ \/ \E data \in TokenPayloads :
                /\ _authentication' = _exchange_then(_authentication, data)
                /\ ev' = [op |-> req.op, step |-> "answer",
                          outcome |-> "resolved",
                          grant |-> req.grant, state |-> req.arg,
                          data |-> data,
                          value |-> IF req.op = "import_token"
                                       THEN export_token_of(_authentication')
                                       ELSE data,
                          prior |-> _authentication.state,
                          sent |-> FALSE]
           \/ \E error \in TransportErrors :
                /\ ev' = [op |-> req.op, step |-> "answer",
                          outcome |-> "rejected",
                          grant |-> req.grant, cause |-> error,
                          error |-> _exchange_catch(error),
                          before |-> _authentication, sent |-> FALSE]
                /\ UNCHANGED _authentication
        /\ UNCHANGED <<_settings, now, session>>

---------------------------------------------------------------------------
(* revoke_token and _revoke.                                               *)

\* A faulty variant of the clearing: it drops the access token only.
revoke_clear_AccessOnly(auth) == [auth EXCEPT !.access_token = Undefined]

\* this._authentication = {}
revoke_clear(auth) == EmptyAuthentication

\* A faulty variant of the test: a refresh token alone also counts.
revoke_needed_AnyToken(auth) ==
    Truthy(auth.access_token) \/ Truthy(auth.refresh_token)

\* if (this._authentication.access_token)
revoke_needed(auth) == Truthy(auth.access_token)

\* revoke_token(), up to its await (or to its return when there is no token).
revoke_token ==
    /\ UserCall
    /\ IF revoke_needed(_authentication)
        THEN /\ CanSend
             /\ inflight' = Sent(Request("/oauth/revoke", "revoke_token",
                                         "", Undefined, ""))
             /\ ev' = [op |-> "revoke_token", step |-> "call",
                       outcome |-> "pending",
                       token |-> _authentication.access_token,
                       prior |-> _authentication, sent |-> TRUE]
             /\ UNCHANGED <<_settings, _authentication, now, session>>
        ELSE /\ ev' = [op |-> "revoke_token", step |-> "call",
                       outcome |-> "resolved", prior |-> _authentication,
                       sent |-> FALSE]
             /\ UNCHANGED <<_settings, _authentication, now, inflight,
                            session>>

\* A faulty variant of the answer: the state is cleared before the outcome
\* of the request is known.
RevokeResponse_ClearFirst ==
    /\ Reaction
    /\ \E req \in inflight :
        /\ req.url = "/oauth/revoke"
        /\ inflight' = inflight \ {req}
        /\ _authentication' = revoke_clear(_authentication)
        /\ \/ ev' = [op |-> "revoke_token", step |-> "answer",
                     outcome |-> "resolved", prior |-> _authentication,
                     sent |-> FALSE]
           \/ \E error \in TransportErrors :
                ev' = [op |-> "revoke_token", step |-> "answer",
                       outcome |-> "rejected", error |-> error,
                       prior |-> _authentication, sent |-> FALSE]
        /\ UNCHANGED <<_settings, now, session>>

\* The transport answers the POST /oauth/revoke: revoke_token continues
\* after its await, or fails with the transport's error.
RevokeResponse ==
    /\ Reaction
    /\ \E req \in inflight :
        /\ req.url = "/oauth/revoke"
        /\ inflight' = inflight \ {req}
        /\ \/ /\ _authentication' = revoke_clear(_authentication)
              /\ ev' = [op |-> "revoke_token", step |-> "answer",
                        outcome |-> "resolved", prior |-> _authentication,
                        sent |-> FALSE]
           \/ \E error \in TransportErrors :
                /\ ev' = [op |-> "revoke_token", step |-> "answer",
                          outcome |-> "rejected", error |-> error,
                          prior |-> _authentication, sent |-> FALSE]
                /\ UNCHANGED _authentication
        /\ UNCHANGED <<_settings, now, session>>

---------------------------------------------------------------------------
(* poll_access and _device_code.                                           *)

\* The poll objects a caller may hand to poll_access: none, a string, two
\* device-code answers (interval and expires_in in seconds), and an object
\* without a device_code.  Of the poll object the timer reads interval and
\* expires_in; device_code goes into the body of the requests only.
PollObjects ==
    {Undefined,
     Str("d"),
     [t |-> "object", device_code |-> Str("d"), interval |-> 1,
      expires_in |-> 2],
     [t |-> "object", device_code |-> Str("d"), interval |-> 1,
      expires_in |-> 3],
     [t |-> "object", device_code |-> Undefined, interval |-> 1,
      expires_in |-> 2]}

\* if (!poll || poll.constructor !== Object)
InvalidPoll(poll) == ~Truthy(poll) \/ poll.t # "object"

\* resolve(value) and reject(error) of the promise poll_access returns: the
\* first call settles it, a later one does nothing.
Settle(sess, outcome, value) ==
    IF sess.outcome = "pending"
        THEN [sess EXCEPT !.outcome = outcome, !.value = value]
        ELSE sess

\* clearInterval(polling)
clearInterval(sess) == [sess EXCEPT !.polling = FALSE]

\* if (begin + (poll.expires_in * 1000) <= Date.now())
poll_expired(sess, time) ==
    sess.begin + (sess.expires_in * MsPerSecond) <= time

\* poll_access(poll): the check, begin, and setInterval.
poll_access ==
    /\ UserCall
    /\ \E poll \in PollObjects :
        IF InvalidPoll(poll)
            THEN /\ ev' = [op |-> "poll_access", step |-> "call",
                           poll |-> poll,
                           outcome |-> "thrown",
                           error |-> Error("Invalid Poll object"),
                           timer |-> FALSE, sent |-> FALSE]
                 /\ UNCHANGED <<_settings, _authentication, now, inflight,
                                session>>
            ELSE /\ ~session.started
                 /\ session' = [started |-> TRUE, begin |-> now,
                                expires_in |-> poll.expires_in,
                                interval |-> poll.interval,
                                polling |-> TRUE,
                                due |-> now + (poll.interval * MsPerSecond),
                                outcome |-> "pending", value |-> Undefined]
                 /\ ev' = [op |-> "poll_access", step |-> "call",
                           poll |-> poll,
                           outcome |-> "pending",
                           timer |-> TRUE, sent |-> FALSE]
                 /\ UNCHANGED <<_settings, _authentication, now, inflight>>

\* The expiry branch of call: clearInterval and reject.
call_expired(sess) ==
    Settle(clearInterval(sess), "rejected", Error("Expired"))

\* The timer of the session fires: call().
call ==
    /\ Reaction
    /\ session.started
    /\ session.polling
    /\ now >= session.due
    /\ IF poll_expired(session, now)
          THEN /\ session' = call_expired(session)
               /\ ev' = [op |-> "call", step |-> "timer",
                         outcome |-> "expired",
                         settled |-> session.outcome # "pending",
                         sent |-> FALSE]
               /\ UNCHANGED inflight
          ELSE /\ CanSend
               /\ inflight' = Sent(Request("/oauth/device/token",
                                           "poll_access", "", Undefined, ""))
               /\ session' = [session EXCEPT
                                 !.due = now + (session.interval * MsPerSecond)]
               /\ ev' = [op |-> "call", step |-> "timer",
                         outcome |-> "requested",
                         settled |-> session.outcome # "pending",
                         sent |-> TRUE]
    /\ UNCHANGED <<_settings, _authentication, now>>

\* The answer to POST /oauth/device/code: the codes a user is shown.
DeviceCodes ==
    {[t |-> "object", device_code |-> Str("d"), user_code |-> Str("u"),
      interval |-> 1, expires_in |-> 2]}

\* get_codes(): _device_code(str, 'code'), up to this._api(req).
get_codes ==
    /\ UserCall
    /\ CanSend
    /\ inflight' = Sent(Request("/oauth/device/code", "get_codes", "",
                                Undefined, ""))
    /\ ev' = [op |-> "get_codes", step |-> "call", outcome |-> "pending",
              prior |-> _authentication, sent |-> TRUE]
    /\ UNCHANGED <<_settings, _authentication, now, session>>

\* The catch-callback of _device_code: the error it throws on.
_device_code_catch(error) ==
    IF statusCode(error) = Num(401)
        THEN Error(error.response.headers.www_authenticate)
        ELSE error

\* The transport answers a POST /oauth/device/code: get_codes resolves with
\* the codes or fails with the error _device_code throws on.
DeviceCodeResponse ==
    /\ Reaction
    /\ \E req \in inflight :
        /\ req.url = "/oauth/device/code"
        /\ inflight' = inflight \ {req}
        /\ \/ \E data \in DeviceCodes :
                ev' = [op |-> "get_codes", step |-> "answer",
                       outcome |-> "resolved", value |-> data,
                       prior |-> _authentication, sent |-> FALSE]
           \/ \E error \in TransportErrors :
                ev' = [op |-> "get_codes", step |-> "answer",
                       outcome |-> "rejected", cause |-> error,
                       error |-> _device_code_catch(error),
                       prior |-> _authentication, sent |-> FALSE]
        /\ UNCHANGED <<_settings, _authentication, now, session>>

\* A faulty variant of the then-callback: expires computed as _exchange does.
call_then_CreatedAt(auth, body, time) ==
    [auth EXCEPT
        !.refresh_token = body.refresh_token,
        !.access_token = body.access_token,
        !.expires = Num((body.created_at + body.expires_in) * MsPerSecond)]

\* The then-callback of call: the three assignments.
call_then(auth, body, time) ==
    [auth EXCEPT
        !.refresh_token = body.refresh_token,
        !.access_token = body.access_token,
        !.expires = Num(time + (body.expires_in * MsPerSecond))]

\* The then-callback of call: clearInterval and resolve.
call_resolve(sess, body) == Settle(clearInterval(sess), "resolved", body)

\* A faulty variant of the catch-callback: it rejects and leaves the timer.
call_catch_NoClear(sess, error) ==
    IF statusCode(error) = Num(400)
        THEN sess
        ELSE Settle(sess, "rejected", error)

\* The catch-callback of call.
call_catch(sess, error) ==
    IF statusCode(error) = Num(400)
        THEN sess
        ELSE Settle(clearInterval(sess), "rejected", error)

\* The transport answers a POST /oauth/device/token of the session.
DeviceTokenResponse ==
    /\ Reaction
    /\ \E req \in inflight :
        /\ req.url = "/oauth/device/token"
        /\ inflight' = inflight \ {req}
        /\ \/ \E body \in TokenPayloads :
                /\ _authentication' = call_then(_authentication, body, now)
                /\ session' = call_resolve(session, body)
                /\ ev' = [op |-> "call.then", step |-> "answer",
                          outcome |-> "resolved",
                          body |-> body, prior |-> _authentication,
                          settled |-> session.outcome # "pending",
                          expired |-> poll_expired(session, now),
                          sent |-> FALSE]
           \/ \E error \in TransportErrors :
                /\ session' = call_catch(session, _device_code_catch(error))
                /\ ev' = [op |-> "call.catch", step |-> "answer",
                          outcome |-> "rejected",
                          cause |-> error,
                          error |-> _device_code_catch(error),
                          settled |-> session.outcome # "pending",
                          polling |-> session.polling,
                          sent |-> FALSE]
                /\ UNCHANGED _authentication
        /\ UNCHANGED <<_settings, now>>

---------------------------------------------------------------------------
(* _parse, _call and _parseResponse.                                       *)

Literal(text) == [t |-> "literal", name |-> text]
Placeholder(name) == [t |-> "placeholder", name |-> name]
Array(seq) == [t |-> "array", v |-> seq]

\* Endpoint descriptors in the form of the endpoint table: url is split at
\* '?' into its path (split at '/') and the names of its query part.
Methods ==
    {[name |-> "/users/settings", method |-> "GET",
      path |-> <<Literal(""), Literal("users"), Literal("settings")>>,
      query |-> <<>>, optional |-> Array(<<>>),
      opts |-> [auth |-> Bool(TRUE), pagination |-> Bool(TRUE),
                extended |-> Undefined]],
     [name |-> "/movies/summary", method |-> "GET",
      path |-> <<Literal(""), Literal("movies"), Placeholder("id")>>,
      query |-> <<>>, optional |-> Undefined,
      opts |-> [auth |-> Undefined, pagination |-> Undefined,
                extended |-> Bool(TRUE)]],
     [name |-> "/search/text", method |-> "GET",
      path |-> <<Literal(""), Literal("search"), Placeholder("type")>>,
      query |-> <<"query">>, optional |-> Array(<<>>),
      opts |-> [auth |-> Str("optional"), pagination |-> Bool(TRUE),
                extended |-> Undefined]]}

MethodNamed(name) == CHOOSE m \in Methods : m.name = name

\* An object literal, given as its properties in insertion order.
Object(props) == [t |-> "object", props |-> props]

\* The parameter objects a caller may hand to a generated method, or none.
ParamObjects ==
    {Undefined,
     Object(<<[k |-> "id", v |-> Num(0)]>>),
     Object(<<[k |-> "type", v |-> Str("movie")],
              [k |-> "query", v |-> Str("a b")]>>)}

\* if (!params) params = {}: the properties of params.
OrEmpty(params) == IF Truthy(params) THEN params.props ELSE <<>>

\* params[name]
Param(params, name) ==
    LET hits == {i \in 1..Len(OrEmpty(params)) : OrEmpty(params)[i].k = name}
    IN  IF hits = {} THEN Undefined
        ELSE OrEmpty(params)[CHOOSE i \in hits : TRUE].v

\* if (param || param === 0)
Present(param) == Truthy(param) \/ param = Num(0)

\* String(v) of a string or a number, as join and a template literal do.
String(v) == IF v.t = "number" THEN ToString(v.v) ELSE v.v

\* encodeURIComponent(v), on the values the parameter objects hold.
encodeURIComponent(v) ==
    CASE v = Str("a b") -> "a%20b"
      [] v = Undefined -> "undefined"
      [] OTHER -> String(v)

\* seq.join(sep)
RECURSIVE Join(_, _)
Join(seq, sep) ==
    IF seq = <<>> THEN ""
    ELSE IF Len(seq) = 1 THEN Head(seq)
    ELSE Head(seq) \o sep \o Join(Tail(seq), sep)

\* What a piece of _parse yields: the parts it pushed, or the error it threw.
Pushed(parts) == [threw |-> FALSE, parts |-> parts]
Threw(error) == [threw |-> TRUE, error |-> error]

\* The ?Part loop: name=value of each declared query name that is present.
queryLoop(method, params) ==
    LET IsPresent(name) == Present(Param(params, name))
        named == SelectSeq(method.query, IsPresent)
    IN  [i \in 1..Len(named) |->
            named[i] \o "=" \o encodeURIComponent(Param(params, named[i]))]

\* method.optional?.indexOf(name) === -1
NotOptional(method, name) ==
    /\ method.optional # Undefined
    /\ \A i \in 1..Len(method.optional.v) : method.optional.v[i] # name

\* The /part loop from segment i on: the path parts, or the error thrown at
\* the first missing placeholder that is not optional.
RECURSIVE pathLoop(_, _, _)
pathLoop(method, params, i) ==
    IF i > Len(method.path) THEN Pushed(<<>>)
    ELSE LET path == method.path[i]
             param == Param(params, path.name)
             rest == pathLoop(method, params, i + 1)
             Push(part) ==
                 IF rest.threw THEN rest ELSE Pushed(<<part>> \o rest.parts)
         IN  IF path.t = "literal" THEN Push(path.name)
             ELSE IF Present(param) THEN Push(String(param))
             ELSE IF NotOptional(method, path.name)
                 THEN Threw(Error("Missing mandatory paramater: " \o path.name))
                 ELSE rest

\* The Filters loop: its first iteration calls filters.contains, which no
\* array has, so the loop throws as soon as params has a property.
filtersLoop(params, parts) ==
    IF Len(OrEmpty(params)) > 0
        THEN Threw([t |-> "TypeError",
                    message |-> "filters.contains is not a function"])
        ELSE Pushed(parts)

\* The Pagination and Extended blocks.
optionParts(method, params) ==
    (IF Truthy(method.opts.pagination) /\ Truthy(Param(params, "page"))
        THEN <<"page=" \o String(Param(params, "page"))>> ELSE <<>>)
    \o (IF Truthy(method.opts.pagination) /\ Truthy(Param(params, "limit"))
        THEN <<"limit=" \o String(Param(params, "limit"))>> ELSE <<>>)
    \o (IF Truthy(method.opts.extended) /\ Truthy(Param(params, "extended"))
        THEN <<"extended=" \o String(Param(params, "extended"))>> ELSE <<>>)

\* _parse(method, params): the url, or the error thrown.
_parse(method, params) ==
    LET path == pathLoop(method, params, 1)
        filtered == filtersLoop(params, queryLoop(method, params))
    IN  IF path.threw THEN path
        ELSE IF filtered.threw THEN filtered
        ELSE LET query == filtered.parts \o optionParts(method, params)
             IN  [threw |-> FALSE,
                  url |-> Join(path.parts, "/")
                          \o (IF query # <<>> THEN "?" \o Join(query, "&")
                              ELSE "")]

\* A faulty variant of the check: it forgets the client secret.
OAuthRequired_TokenOnly(method, auth, settings) ==
    /\ method.opts.auth = Bool(TRUE)
    /\ ~Truthy(auth.access_token)

\* The check that opens _call.
OAuthRequired(method, auth, settings) ==
    /\ method.opts.auth = Bool(TRUE)
    /\ ~Truthy(auth.access_token) \/ ~Truthy(settings.client_secret)

\* req.headers['Authorization'] of a call, undefined when it is not set.
Authorization(method, auth) ==
    IF Truthy(method.opts.auth) /\ Truthy(auth.access_token)
        THEN Str("Bearer " \o auth.access_token.v)
        ELSE Undefined

\* A generated method is called: _call(method, params), up to this._api(req).
\* Every descriptor here is a GET, so req.data is deleted.
_call ==
    /\ UserCall
    /\ \E method \in Methods, params \in ParamObjects :
        /\ IF OAuthRequired(method, _authentication, _settings)
              THEN /\ ev' = [op |-> "_call", step |-> "call",
                             method |-> method.name, params |-> params,
                             outcome |-> "thrown",
                             error |-> Error("OAuth required"),
                             sent |-> FALSE]
                   /\ UNCHANGED inflight
              ELSE IF _parse(method, params).threw
              THEN /\ ev' = [op |-> "_call", step |-> "call",
                             method |-> method.name, params |-> params,
                             outcome |-> "thrown",
                             error |-> _parse(method, params).error,
                             sent |-> FALSE]
                   /\ UNCHANGED inflight
              ELSE /\ CanSend
                   /\ inflight' = Sent(Request("api", "_call", "",
                                               Param(params, "pagination"),
                                               method.name))
                   /\ ev' = [op |-> "_call", step |-> "call",
                             method |-> method.name, params |-> params,
                             outcome |-> "pending",
                             url |-> _parse(method, params).url,
                             authorization |->
                                 Authorization(method, _authentication),
                             sent |-> TRUE]
        /\ UNCHANGED <<_settings, _authentication, now, session>>

\* The answers of the API: a payload and the pagination headers.
ApiResponses ==
    {[data |-> Str("payload"),
      headers |-> [t |-> "object", item_count |-> Str("25"),
                   limit |-> Str("10"), page |-> Str("1"),
                   page_count |-> Str("3")]]}

\* A faulty variant of the normalization: it does not ask the descriptor.
_parseResponse_AnyMethod(method, pagination, settings, response) ==
    IF Truthy(pagination) \/ Truthy(settings.pagination)
        THEN [t |-> "object", data |-> response.data,
              pagination |->
                  IF Truthy(response.headers)
                      THEN [t |-> "object",
                            item_count |-> response.headers.item_count,
                            limit |-> response.headers.limit,
                            page |-> response.headers.page,
                            page_count |-> response.headers.page_count]
                      ELSE Bool(FALSE)]
        ELSE response.data

\* _parseResponse(method, params, {data, headers}), given params?.pagination.
_parseResponse(method, pagination, settings, response) ==
    IF Truthy(pagination) \/ Truthy(settings.pagination)
        THEN [t |-> "object", data |-> response.data,
              pagination |->
                  IF Truthy(method.opts.pagination) /\ Truthy(response.headers)
                      THEN [t |-> "object",
                            item_count |-> response.headers.item_count,
                            limit |-> response.headers.limit,
                            page |-> response.headers.page,
                            page_count |-> response.headers.page_count]
                      ELSE Bool(FALSE)]
        ELSE response.data

\* The transport answers the request of a call.
ApiResponse ==
    /\ Reaction
    /\ \E req \in inflight :
        /\ req.url = "api"
        /\ inflight' = inflight \ {req}
        /\ \/ \E response \in ApiResponses :
                ev' = [op |-> "_call", step |-> "answer",
                       method |-> req.method, outcome |-> "resolved",
                       pagination |-> req.arg, response |-> response,
                       value |-> _parseResponse(MethodNamed(req.method),
                                                req.arg, _settings, response),
                       sent |-> FALSE]
           \/ \E error \in TransportErrors :
                ev' = [op |-> "_call", step |-> "answer",
                       method |-> req.method,
                       outcome |-> "rejected", error |-> error,
                       sent |-> FALSE]
        /\ UNCHANGED <<_settings, _authentication, now, session>>

---------------------------------------------------------------------------
(* The system.                                                             *)

\* Wall-clock time passes.
Advance ==
    /\ Reaction
    /\ now < MaxClock * MsPerSecond
    /\ now' = now + MsPerSecond
    /\ UNCHANGED <<_settings, _authentication, inflight, session, ev>>

\* What the last step showed its caller has been taken note of.
Observed ==
    /\ ev # NoEvent
    /\ ev' = NoEvent
    /\ UNCHANGED <<_settings, _authentication, now, inflight, session,
                   calls>>

Next ==
    \/ get_url
    \/ exchange_code
    \/ refresh_token
    \/ export_token
    \/ import_token
    \/ revoke_token
    \/ get_codes
    \/ poll_access
    \/ _call
    \/ TokenResponse
    \/ RevokeResponse
    \/ DeviceCodeResponse
    \/ DeviceTokenResponse
    \/ ApiResponse
    \/ call
    \/ Advance
    \/ Observed

Spec == Init /\ [][Next]_vars

---------------------------------------------------------------------------
(* Properties.  ev is the step just taken, so a state in which ev shows a  *)
(* step is the state that step produced; the clock does not advance        *)
(* before the step has been observed.                                      *)

NoToken == ~Truthy(_authentication.access_token)
NoSecret == ~Truthy(_settings.client_secret)

\* The step just taken is a call of the generated method of an auth = true
\* descriptor.
AuthCall ==
    /\ ev.op = "_call"
    /\ ev.step = "call"
    /\ MethodNamed(ev.method).opts.auth = Bool(TRUE)

\* C1: a call of an endpoint whose descriptor has auth = true, made while
\* there is no access token or no client secret, throws 'OAuth required'
\* and hands no request to the transport, whatever the authentication state.
C1_AuthGate ==
    (AuthCall /\ (NoToken \/ NoSecret)) =>
        /\ ev.outcome = "thrown"
        /\ ev.error = Error("OAuth required")
        /\ ~ev.sent

\* An auth = true call was refused although a token is stored, the client
\* having no secret.
C1_Witness ==
    /\ AuthCall
    /\ ~NoToken
    /\ NoSecret
    /\ ev.outcome = "thrown"

\* The step just taken is the answer with status 400 to a device-token
\* request of the session.
Answer400 ==
    /\ ev.op = "call.catch"
    /\ ev.cause.response # Undefined
    /\ ev.cause.response.status = Num(400)

\* C2: a 400 answer to a device-token request neither settles the pending
\* result nor stops the timer, so that the result can only fail with
\* 'Expired'.
C2_Ignores400 ==
    Answer400 =>
        /\ (session.outcome # "pending") = ev.settled
        /\ session.polling = ev.polling
        /\ session.outcome = "rejected" => session.value = Error("Expired")

\* C3: once the pending result of the session is settled its timer is
\* cancelled: no tick runs and no device-token request is issued afterwards.
C3_TimerCancelled ==
    /\ (session.started /\ session.outcome # "pending") => ~session.polling
    /\ ev.op = "call" => ~ev.settled

\* The session failed with a transport error and the time of the next tick
\* has come.
C3_Witness ==
    /\ session.started
    /\ session.outcome = "rejected"
    /\ session.value # Error("Expired")
    /\ now >= session.due

\* The step just taken is a successful answer to a device-token request that
\* arrived before the expiry of the session.
SuccessBeforeExpiry ==
    /\ ev.op = "call.then"
    /\ ~ev.expired

\* What C4 says the state is after such an answer.
TokenGranted ==
    /\ _authentication.access_token = ev.body.access_token
    /\ _authentication.refresh_token = ev.body.refresh_token
    /\ _authentication.expires = Num(now + (ev.body.expires_in * 1000))
    /\ ~session.polling
    /\ session.outcome = "resolved"
    /\ session.value = ev.body

\* C4 as stated: every device-token request that succeeds before expiry
\* stores its tokens, cancels the timer and resolves the pending result
\* with its payload.
C4_AsStated == SuccessBeforeExpiry => TokenGranted

\* C4, amended: it does so when the pending result has not been settled by
\* an earlier answer.
C4_GrantWhilePending == (SuccessBeforeExpiry /\ ~ev.settled) => TokenGranted

C4_Witness ==
    /\ SuccessBeforeExpiry
    /\ ~ev.settled
    /\ session.begin > 0
    /\ now > session.begin

\* The step just taken is the completion of revoke_token after its request.
RevokeCompleted ==
    /\ ev.op = "revoke_token"
    /\ ev.step = "answer"
    /\ ev.outcome = "resolved"

\* The steps that install a token: a token response of _exchange (either
\* grant), a device-token response of the session, import_token.
Installs ==
    /\ ev'.op \in {"exchange_code", "refresh_token", "import_token",
                   "call.then"}
    /\ ev'.step = "answer" \/ ev'.op = "import_token"

\* C5: when revoke_token completes the authentication state is empty and
\* export_token() returns three absent fields; from then on the access
\* token stays absent, and every auth = true call throws 'OAuth required',
\* until a token exchange, the poll or import_token installs a token.
C5_Revoke ==
    /\ [](RevokeCompleted =>
            /\ _authentication = EmptyAuthentication
            /\ export_token_of(_authentication) =
                   [access_token |-> Undefined, expires |-> Undefined,
                    refresh_token |-> Undefined])
    /\ []((AuthCall /\ NoToken) =>
            ev.outcome = "thrown" /\ ev.error = Error("OAuth required"))
    /\ [][(NoToken /\ Truthy(_authentication'.access_token)) => Installs]_vars

\* revoke_token has completed from a state that held both tokens.
C5_Witness ==
    /\ RevokeCompleted
    /\ Truthy(ev.prior.access_token)
    /\ Truthy(ev.prior.refresh_token)
    /\ _authentication = EmptyAuthentication

\* The step just taken is a call of exchange_code with a state that differs
\* from the stored one.
ForgedState ==
    /\ ev.op = "exchange_code"
    /\ ev.step = "call"
    /\ Truthy(ev.state)
    /\ ev.state # ev.prior.state

\* C6: exchange_code with a supplied state that differs from the stored
\* csrfState (or with none stored) throws the CSRF error, sends nothing and
\* leaves the authentication state as it was.
C6_CsrfMismatch ==
    ForgedState =>
        /\ ev.outcome = "thrown"
        /\ ev.error = Error("Invalid CSRF (State)")
        /\ ~ev.sent
        /\ _authentication = ev.prior

\* exchange_code was refused before get_url was ever called.
C6_Witness ==
    /\ ForgedState
    /\ ev.prior.state = Undefined
    /\ ev.outcome = "thrown"

\* The step just taken is the success of an exchange_code that had verified
\* the state which is still the stored one when the answer arrives.
VerifiedExchangeSucceeded ==
    /\ ev.op = "exchange_code"
    /\ ev.step = "answer"
    /\ ev.outcome = "resolved"
    /\ Truthy(ev.state)
    /\ ev.prior = ev.state

\* C7 as stated: the successful exchange invalidates the stored csrfState,
\* so a second exchange_code with the same state is refused.
C7_AsStated ==
    VerifiedExchangeSucceeded =>
        /\ _authentication.state # ev.state
        /\ InvalidCSRF(ev.state, _authentication)

\* C7, amended: the successful exchange leaves the stored csrfState as it
\* is, so a second exchange_code with the same state passes the check.
C7_StateKept ==
    VerifiedExchangeSucceeded =>
        /\ _authentication.state = ev.state
        /\ ~InvalidCSRF(ev.state, _authentication)

C7_Witness ==
    /\ VerifiedExchangeSucceeded
    /\ _authentication.access_token = ev.data.access_token

\* The step just taken is the success of exchange_code or refresh_token.
ExchangeSucceeded ==
    /\ ev.op \in {"exchange_code", "refresh_token"}
    /\ ev.step = "answer"
    /\ ev.outcome = "resolved"

\* C8: after a successful exchange_code or refresh_token the stored state is
\* the response's access_token and refresh_token with expires =
\* (created_at + expires_in) * 1000, and export_token() returns that triple.
C8_TokensStored ==
    ExchangeSucceeded =>
        /\ _authentication.access_token = ev.data.access_token
        /\ _authentication.refresh_token = ev.data.refresh_token
        /\ _authentication.expires =
               Num((ev.data.created_at + ev.data.expires_in) * 1000)
        /\ export_token_of(_authentication) =
               [access_token |-> ev.data.access_token,
                expires |-> Num((ev.data.created_at + ev.data.expires_in)
                                * 1000),
                refresh_token |-> ev.data.refresh_token]

\* refresh_token succeeded with the second payload over a stored first one.
C8_Witness ==
    /\ ExchangeSucceeded
    /\ ev.op = "refresh_token"
    /\ ev.data.created_at = 2
    /\ _authentication.expires = Num(5000)

\* The step just taken is the failure of exchange_code or refresh_token.
ExchangeFailed ==
    /\ ev.op \in {"exchange_code", "refresh_token"}
    /\ ev.step = "answer"
    /\ ev.outcome = "rejected"

\* C9: a 401 answer to the token request makes the operation fail with an
\* error built from the WWW-Authenticate header; any other failure is
\* passed on as the transport raised it.
C9_Translates401 ==
    ExchangeFailed =>
        IF ev.cause.response # Undefined
              /\ ev.cause.response.status = Num(401)
            THEN ev.error = Error(ev.cause.response.headers.www_authenticate)
            ELSE ev.error = ev.cause

\* The triple import_token was given.
Supplied(token) ==
    [access_token |-> token.access_token, expires |-> token.expires,
     refresh_token |-> token.refresh_token]

\* C10: import_token installs the supplied triple; with an expiry earlier
\* than now it sends one refresh_token-grant request carrying the imported
\* refresh token and returns, after the answer, the state exported then;
\* otherwise it sends nothing and returns the supplied triple.
C10_Import ==
    /\ (ev.op = "import_token" /\ ev.step = "call") =>
          /\ export_token_of(_authentication) = Supplied(ev.token)
          /\ IF LessThan(ev.token.expires, now)
                THEN /\ ev.outcome = "pending"
                     /\ ev.sent
                     /\ ev.refresh_token = ev.token.refresh_token
                     /\ \E req \in inflight :
                           /\ req.op = "import_token"
                           /\ req.grant = "refresh_token"
                ELSE /\ ev.outcome = "resolved"
                     /\ ~ev.sent
                     /\ ev.value = Supplied(ev.token)
    /\ (ev.op = "import_token" /\ ev.step = "answer"
            /\ ev.outcome = "resolved") =>
          /\ ev.grant = "refresh_token"
          /\ ev.value = export_token_of(_authentication)
          /\ ev.value.access_token = ev.data.access_token

\* import_token returned after its refresh.
C10_Witness ==
    /\ ev.op = "import_token"
    /\ ev.step = "answer"
    /\ ev.outcome = "resolved"
    /\ ev.value.access_token \in {Str("A"), Str("B")}

\* The step just taken is a call of revoke_token in a state that holds no
\* access token.
RevokeWithoutToken ==
    /\ ev.op = "revoke_token"
    /\ ev.step = "call"
    /\ ~Truthy(ev.prior.access_token)

\* C11: revoke_token() called while no access token is stored returns
\* without handing a request to the transport and leaves every field of the
\* authentication state, a stored csrfState included, as it was.
C11_RevokeNoop ==
    RevokeWithoutToken =>
        /\ ev.outcome = "resolved"
        /\ ~ev.sent
        /\ _authentication = ev.prior

\* revoke_token did nothing in a state holding a csrfState but no access
\* token.
C11_Witness ==
    /\ RevokeWithoutToken
    /\ Truthy(ev.prior.state)
    /\ _authentication = ev.prior

\* A well-formed poll descriptor: a plain object with a device code, an
\* expires_in and an interval (every object of PollObjects has the last two).
WellFormedPoll(poll) ==
    /\ poll.t = "object"
    /\ Truthy(poll.device_code)
    /\ poll.expires_in > 0
    /\ poll.interval > 0

\* The step just taken is a call of poll_access with a descriptor that is
\* not well-formed.
MalformedPollCall ==
    /\ ev.op = "poll_access"
    /\ ev.step = "call"
    /\ ~WellFormedPoll(ev.poll)

\* C12: poll_access with a descriptor that is not well-formed (not a plain
\* object, or without a device code, expires_in or interval) throws
\* 'Invalid Poll object' before a timer is started or a request is sent.
C12_InvalidPoll ==
    MalformedPollCall =>
        /\ ev.outcome = "thrown"
        /\ ev.error = Error("Invalid Poll object")
        /\ ~ev.timer
        /\ ~ev.sent

\* The step just taken is a call of a generated method.
EndpointCall ==
    /\ ev.op = "_call"
    /\ ev.step = "call"

\* The call just made has passed the check that opens _call.
Bound ==
    /\ EndpointCall
    /\ ~OAuthRequired(MethodNamed(ev.method), _authentication, _settings)

\* name is listed in the optional parameters of method.
ListedOptional(method, name) ==
    /\ method.optional # Undefined
    /\ \E i \in 1..Len(method.optional.v) : method.optional.v[i] = name

\* The positions of the placeholders of method that are not listed as
\* optional and to which params gives no present value.
MissingMandatory(method, params) ==
    {i \in 1..Len(method.path) :
        /\ method.path[i].t = "placeholder"
        /\ ~ListedOptional(method, method.path[i].name)
        /\ ~Present(Param(params, method.path[i].name))}

\* C13: when a placeholder of the URL template is not listed as optional
\* (the descriptor may have no optional list) and the parameters give it no
\* present value, binding throws the missing-mandatory-parameter error that
\* names the placeholder, and no request is sent.
C13_MissingMandatory ==
    (Bound /\ MissingMandatory(MethodNamed(ev.method), ev.params) # {}) =>
        /\ ev.outcome = "thrown"
        /\ \E i \in MissingMandatory(MethodNamed(ev.method), ev.params) :
              ev.error = Error("Missing mandatory paramater: "
                               \o MethodNamed(ev.method).path[i].name)
        /\ ~ev.sent

\* The values binding is to take for absent: an empty string, false, null
\* and a missing parameter.
AbsentValues == {Str(""), Bool(FALSE), [t |-> "null"], Undefined}

\* The positions of the placeholders of method to which params gives 0.
ZeroPlaceholders(method, params) ==
    {i \in 1..Len(method.path) :
        /\ method.path[i].t = "placeholder"
        /\ Param(params, method.path[i].name) = Num(0)}

\* The declared query names of method to which params gives 0.
ZeroQueries(method, params) ==
    {i \in 1..Len(method.query) : Param(params, method.query[i]) = Num(0)}

\* The step just taken is a call that gives 0 to a placeholder or to a
\* declared query name, and leaves no mandatory placeholder out.
ZeroGiven ==
    /\ Bound
    /\ ZeroPlaceholders(MethodNamed(ev.method), ev.params)
           \cup ZeroQueries(MethodNamed(ev.method), ev.params) # {}
    /\ MissingMandatory(MethodNamed(ev.method), ev.params) = {}

\* C14: binding takes a value of 0 for present, so that binding succeeds
\* with the 0 in the built path or query string, and takes an empty string,
\* false, null and a missing parameter for absent.
C14_ZeroIsPresent ==
    /\ Present(Num(0))
    /\ \A v \in AbsentValues : ~Present(v)
    /\ ZeroGiven =>
          /\ ev.outcome = "pending"
          /\ ev.sent
          /\ \A i \in ZeroPlaceholders(MethodNamed(ev.method), ev.params) :
                pathLoop(MethodNamed(ev.method), ev.params, 1).parts[i] = "0"
          /\ \A i \in ZeroQueries(MethodNamed(ev.method), ev.params) :
                \E j \in DOMAIN queryLoop(MethodNamed(ev.method), ev.params) :
                    queryLoop(MethodNamed(ev.method), ev.params)[j]
                        = MethodNamed(ev.method).query[i] \o "=0"

\* The step just taken is the normalization of the answer to a call.
Normalized ==
    /\ ev.op = "_call"
    /\ ev.step = "answer"
    /\ ev.outcome = "resolved"

\* The per-call flags params.pagination may hold.
PerCallFlags == {Undefined, Bool(TRUE), Bool(FALSE)}

\* Pagination is requested by the per-call flag or by the client's setting.
Requested(flag) == Truthy(flag) \/ Truthy(_settings.pagination)

\* value is what C15 says the normalization of response is.
ThreeOutcomes(value, method, flag, response) ==
    /\ (Requested(flag) /\ Truthy(method.opts.pagination)
            /\ Truthy(response.headers)) =>
          value = [t |-> "object", data |-> response.data,
                   pagination |->
                       [t |-> "object",
                        item_count |-> response.headers.item_count,
                        limit |-> response.headers.limit,
                        page |-> response.headers.page,
                        page_count |-> response.headers.page_count]]
    /\ (Requested(flag) /\ ~Truthy(method.opts.pagination)) =>
          value = [t |-> "object", data |-> response.data,
                   pagination |-> Bool(FALSE)]
    /\ ~Requested(flag) => value = response.data
    /\ \/ value = response.data
       \/ /\ value.t = "object"
          /\ value.data = response.data
          /\ value.pagination = Bool(FALSE) \/ Truthy(response.headers)

\* C15: the value a call resolves with is {data, pagination} with the four
\* pagination headers when pagination was requested, the descriptor
\* supports it and headers are present; {data, pagination: false} when it
\* was requested and the descriptor does not support it; the raw payload
\* when it was not requested.  The same holds of the normalization of the
\* answer under every per-call flag, with and without its headers.
C15_Normalization ==
    Normalized =>
        /\ ThreeOutcomes(ev.value, MethodNamed(ev.method), ev.pagination,
                         ev.response)
        /\ \A flag \in PerCallFlags :
           \A headers \in {ev.response.headers, Undefined} :
           \A method \in Methods :
              ThreeOutcomes(
                  _parseResponse(method, flag, _settings,
                                 [ev.response EXCEPT !.headers = headers]),
                  method, flag,
                  [ev.response EXCEPT !.headers = headers])

\* A call of a descriptor that supports pagination resolved with the
\* envelope, pagination being the client's setting.
C15_Witness ==
    /\ Normalized
    /\ Truthy(_settings.pagination)
    /\ ev.value.t = "object"
    /\ ev.value.pagination # Bool(FALSE)
    /\ ev.value.pagination.page = ev.response.headers.page

\* C16: export_token() and get_codes() leave every field of the
\* authentication state as it was, and get_url() changes no field but the
\* csrfState: the access token, the refresh token and expires are the same
\* before and after.
C16_Frame ==
    /\ ev.op \in {"export_token", "get_codes"} => _authentication = ev.prior
    /\ ev.op = "get_url" =>
          /\ _authentication = [ev.prior EXCEPT !.state = ev.state]
          /\ export_token_of(_authentication) = export_token_of(ev.prior)

\* get_url stored a csrfState in a state that holds tokens.
C16_Witness ==
    /\ ev.op = "get_url"
    /\ Truthy(ev.prior.access_token)
    /\ Truthy(ev.prior.refresh_token)
    /\ _authentication.state = ev.state

\* The times at which a response may have arrived.
Times == {k * MsPerSecond : k \in 0..MaxClock}

\* The token records that come entirely from one source: the empty record,
\* a token response of _exchange, a device-token response that arrived at
\* some time up to now, and an imported record.
WholeRecords ==
    {export_token_of(EmptyAuthentication)}
    \cup {[access_token |-> p.access_token,
           expires |-> Num((p.created_at + p.expires_in) * 1000),
           refresh_token |-> p.refresh_token] : p \in TokenPayloads}
    \cup {[access_token |-> pt[1].access_token,
           expires |-> Num(pt[2] + (pt[1].expires_in * 1000)),
           refresh_token |-> pt[1].refresh_token] :
              pt \in TokenPayloads \X {t \in Times : t <= now}}
    \cup {Supplied(token) : token \in ImportTokens}

\* C17: in every state, that is wherever another operation can run, the
\* stored (access_token, refresh_token, expires) is empty or comes entirely
\* from one token response or one imported record.
C17_WholeRecord == export_token_of(_authentication) \in WholeRecords

\* A device-token response has replaced a record that came from another
\* source, while a token request was still in flight.
C17_Witness ==
    /\ ev.op = "call.then"
    /\ Truthy(ev.prior.access_token)
    /\ ev.prior.access_token # _authentication.access_token
    /\ \E req \in inflight : req.url = "/oauth/token"

\* The fixed allow-list of filter parameters.
Filters ==
    {"query", "years", "genres", "languages", "countries", "runtimes",
     "ratings", "certifications", "networks", "status"}

\* The filter entries C18 says binding appends after the entries done: one
\* name=encoded(value) for each parameter of the allow-list, in the order
\* of the parameter object, whose value is present and whose entry is not
\* among those done.
FilterEntries(params, done) ==
    LET entry(p) == p.k \o "=" \o encodeURIComponent(p.v)
        IsNew(p) ==
            /\ p.k \in Filters
            /\ Present(p.v)
            /\ \A i \in 1..Len(done) : done[i] # entry(p)
        new == SelectSeq(OrEmpty(params), IsNew)
    IN  [i \in 1..Len(new) |-> entry(new[i])]

\* The URL C18 says binding builds.
BoundUrl(method, params) ==
    LET declared == queryLoop(method, params)
        query == declared \o FilterEntries(params, declared)
                     \o optionParts(method, params)
    IN  Join(pathLoop(method, params, 1).parts, "/")
            \o (IF query # <<>> THEN "?" \o Join(query, "&") ELSE "")

\* The step just taken is a call whose parameters hold a filter parameter
\* and leave no mandatory placeholder out.
FilterGiven ==
    /\ Bound
    /\ MissingMandatory(MethodNamed(ev.method), ev.params) = {}
    /\ \E i \in 1..Len(OrEmpty(ev.params)) :
          OrEmpty(ev.params)[i].k \in Filters

\* C18: binding succeeds and appends to the query string one filter entry
\* name=encoded(value) for exactly the parameters that are in the filter
\* allow-list, have a present value and were not added from the declared
\* query names; no entry is duplicated.
C18_Filters ==
    FilterGiven =>
        /\ ev.outcome = "pending"
        /\ ev.sent
        /\ ev.url = BoundUrl(MethodNamed(ev.method), ev.params)

\* The step just taken is a successful answer to a device-token request
\* that arrived after the pending result of its session was settled.
LateSuccess ==
    /\ ev.op = "call.then"
    /\ ev.settled

\* C19: a device-token response that arrives after the pending result of
\* its session was settled (resolved, failed with 'Expired' or failed with
\* a transport error) does not modify the authentication state.
C19_NoLateWrite == LateSuccess => _authentication = ev.prior

\* The step just taken is the sending of the request of exchange_code,
\* refresh_token or revoke_token.
RequestSent ==
    /\ ev.op \in {"exchange_code", "refresh_token", "revoke_token"}
    /\ ev.step = "call"
    /\ ev.sent

\* The step just taken is the failure of the request of revoke_token.
RevokeFailed ==
    /\ ev.op = "revoke_token"
    /\ ev.step = "answer"
    /\ ev.outcome = "rejected"

\* C20: when the request of exchange_code, refresh_token or revoke_token
\* fails and the operation fails with it, the authentication state is what
\* it was: sending the request changed nothing, and the failure stores no
\* token, overwrites none and clears none.
C20_FailureKeepsState ==
    /\ RequestSent => _authentication = ev.prior
    /\ ExchangeFailed => _authentication = ev.before
    /\ RevokeFailed => _authentication = ev.prior

\* The request of revoke_token failed and the tokens are still stored.
C20_Witness ==
    /\ RevokeFailed
    /\ Truthy(_authentication.access_token)
    /\ Truthy(_authentication.refresh_token)

=============================================================================
